---- MODULE Spec2Model ----
(***************************************************************************)
(* Model of the flight-cost analysis agent:                                *)
(*   - the router node of app/agent/graph.py (oracle attempts with a       *)
(*     bounded retry loop, then the deterministic fallback),               *)
(*   - the compiled graph of app/agent/graph.py (conditional edges of the  *)
(*     router, the stage nodes and their edges),                           *)
(*   - the bounded fan-out of app/tools/screenshot.py (take_screenshots,   *)
(*     _guard, _capture_one),                                              *)
(*   - the checkpoints of the compiled graph, what run_agent of            *)
(*     app/agent/runner.py gives its caller, and cancellation.             *)
(*   - the trace decorator of app/agent/tracing.py, the tool map built     *)
(*     when app/agent/graph.py is imported, and one capture step by step   *)
(*     (_capture_one of app/tools/screenshot.py, _go of app/tasks.py).     *)
(***************************************************************************)
EXTENDS Integers, Sequences, FiniteSets, TLC

VARIABLES
    pc,          \* position of the run in the graph
    gs,          \* GraphState: quotes, agg_quotes, screenshots, analytics
    final,       \* answer produced by response_builder (no field of GraphState)
    attempt,     \* loop index of the router's for-loop
    calls,       \* oracle calls made by the current router invocation
    oracleLog,   \* what each oracle call of the current invocation produced
    decision,    \* dict returned by the router
    dsource,     \* where the returned decision came from
    usedOracle,  \* whether some decision of this run came from the oracle
    trace,       \* nodes executed so far / tokens returned so far
    err,         \* error that ended the run
    before,      \* GraphState and final the last decision was computed from
    start,       \* GraphState and final the run started from
    user_query,  \* GraphState.user_query: the request of the run
    saved,       \* last checkpoint the compiled graph wrote to `memory`
    puts,        \* number of checkpoints written so far
    callerGot,   \* what run_agent gave its caller: a result dict or an exception
    reqs,        \* take_screenshots: what happens to the capture of each request
    entered,     \* number of _guard tasks that have reached the semaphore
    waiters,     \* FIFO queue of _guard tasks blocked on the semaphore
    running,     \* _guard tasks inside the semaphore (capture in flight)
    semValue,    \* free slots of the semaphore
    outcome,     \* per task: what its _guard task ended with
    order,       \* order in which captures completed
    batch,       \* state of the awaiting take_screenshots call
    results,     \* list returned by take_screenshots
    traceIn,     \* a call of a traced node: the node, its state, what it does
    traceOut,    \* what the traced and the untraced call gave, and the log
    discovered,  \* the tools the MCP servers offer when graph.py is imported
    tool_map,    \* graph.py's module-level tool_map
    boot,        \* how far the import of graph.py has got
    cap          \* one capture (_capture_one or _go): position, browser, outcome

vars == <<pc, gs, final, attempt, calls, oracleLog, decision, dsource,
          usedOracle, trace,
          err, before, start, user_query, saved, puts, callerGot,
          reqs, entered, waiters, running, semValue, outcome,
          order, batch, results, traceIn, traceOut, discovered, tool_map,
          boot, cap>>

agentVars == <<pc, gs, final, attempt, calls, oracleLog, decision, dsource,
               usedOracle,
               trace, err, before, start, user_query, saved, puts, callerGot>>

fanVars == <<reqs, entered, waiters, running, semValue, outcome, order, batch,
             results>>

harnessVars == <<traceIn, traceOut, discovered, tool_map, boot, cap>>

-----------------------------------------------------------------------------
(* Bounds of the model *)

\* largest number of requests in one take_screenshots batch
MaxReqs == 4

\* largest number of applications of the deterministic rule in a row
MaxApply == 7

-----------------------------------------------------------------------------
(* GraphState *)

\* An Optional field is None, an empty container or a non-empty container.
FieldValues == {"none", "empty", "full"}

Fields == {"quotes", "agg_quotes", "screenshots", "analytics"}

GraphState == [Fields -> FieldValues]

\* Python truthiness of an Optional[List]/Optional[dict]: `not x`.
Falsy(v) == v \in {"none", "empty"}

-----------------------------------------------------------------------------
(* Router: tokens, schema, oracle output *)

MAX_ROUTER_RETRIES == 2

\* Tool names the router may produce (router prompt, RouterDecision schema).
ALLOWED_TOOL_NAMES ==
    {"flight_search_tool", "aggregator_tool", "screenshot_tool",
     "analytics_tool", "response_builder", "finish"}

\* tool_args values: the empty mapping and some non-empty mapping.
ToolArgs == {"{}", "{k:v}"}

\* tool_name values an oracle may put in a JSON object: the allowed ones, a
\* graph node name and an unknown name.
OracleNames == ALLOWED_TOOL_NAMES \cup {"flight_search", "bogus"}

\* Payload of an oracle answer: a JSON object with tool_name/tool_args, a JSON
\* object without tool_args, or text that is not JSON.
JsonBodies ==
    [kind : {"json"}, tool_name : OracleNames, tool_args : ToolArgs \cup {"absent"}]

Bodies == JsonBodies \cup {[kind |-> "text"]}

\* An answer's content is a sequence of chunks: whitespace, code fences, payload.
ChunkKinds == {"ws", "fence_json", "fence"}

WS == [kind |-> "ws"]

FenceJson == [kind |-> "fence_json"]

Fence == [kind |-> "fence"]

Wrap(b) ==
    { <<b>>,
      <<WS, b, WS>>,
      <<FenceJson, WS, b, WS, Fence>>,
      <<FenceJson, b>>,
      <<Fence, b, Fence>> }

\* What one call of router_llm.invoke can do: raise, return a message whose
\* content is no string, or return text.
OracleResponses ==
    {[kind |-> "raise"], [kind |-> "nonstring"]}
        \cup { [kind |-> "content", content |-> c] :
                 c \in UNION { Wrap(b) : b \in Bodies } }

RECURSIVE LStrip(_)
LStrip(s) == IF s # <<>> /\ Head(s) = WS THEN LStrip(Tail(s)) ELSE s

RECURSIVE RStrip(_)
RStrip(s) ==
    IF s # <<>> /\ s[Len(s)] = WS THEN RStrip(SubSeq(s, 1, Len(s) - 1)) ELSE s

\* str.strip()
Strip(s) == RStrip(LStrip(s))

\* graph.py 119-124: strip, drop a leading json fence, drop a trailing fence,
\* strip.
CleanContent(c) ==
    LET s1 == Strip(c)
        s2 == IF s1 # <<>> /\ Head(s1) = FenceJson THEN Tail(s1) ELSE s1
        s3 == IF s2 # <<>> /\ s2[Len(s2)] = Fence
              THEN SubSeq(s2, 1, Len(s2) - 1) ELSE s2
    IN  Strip(s3)

\* RouterDecision: the payload must be a JSON object whose tool_name is one of
\* the allowed names; tool_args defaults to {}.
\* Faulty variant: tool_name typed str instead of Literal[*ALLOWED_TOOL_NAMES]
RouterDecisionAnyName(b) == b.kind = "json"

RouterDecision(b) == b.kind = "json" /\ b.tool_name \in ALLOWED_TOOL_NAMES

\* parser.parse: takes the JSON object out of the text around it (fences,
\* whitespace) and validates it against RouterDecision.
ParserParse(c) ==
    LET idx == { i \in 1..Len(c) : c[i].kind \notin ChunkKinds }
    IN  IF idx = {} THEN [ok |-> FALSE]
        ELSE LET b == c[CHOOSE i \in idx : \A j \in idx : i <= j]
             IN  IF RouterDecision(b)
                 THEN [ok |-> TRUE,
                       tool_name |-> b.tool_name,
                       tool_args |-> IF b.tool_args = "absent" THEN "{}"
                                     ELSE b.tool_args]
                 ELSE [ok |-> FALSE]

NoDecision == [tool_name |-> "none", tool_args |-> "none"]

\* Faulty variant: the parsed tool_args are dropped from the returned dict
RouterTryDropArgs(resp) ==
    IF resp.kind \in {"raise", "nonstring"} THEN [kind |-> "continue"]
    ELSE LET d == ParserParse(CleanContent(resp.content))
         IN  IF d.ok
             THEN [kind |-> "return",
                   decision |-> [tool_name |-> d.tool_name, tool_args |-> "{}"]]
             ELSE [kind |-> "continue"]

\* Faulty variant: the outer `except Exception` is missing, so an exception of
\* the oracle call leaves the router
RouterTryNoOuterExcept(resp) ==
    IF resp.kind = "raise" THEN [kind |-> "raise"]
    ELSE IF resp.kind = "nonstring" THEN [kind |-> "continue"]
    ELSE LET d == ParserParse(CleanContent(resp.content))
         IN  IF d.ok
             THEN [kind |-> "return",
                   decision |-> [tool_name |-> d.tool_name, tool_args |-> d.tool_args]]
             ELSE [kind |-> "continue"]

\* graph.py 107-140: one iteration of the router's loop.  Every failure (the
\* invoke raising, content.strip() on a non-string, the parse failing) is
\* caught and the loop continues.
RouterTry(resp) ==
    IF resp.kind = "raise" THEN [kind |-> "continue"]
    ELSE IF resp.kind = "nonstring" THEN [kind |-> "continue"]
    ELSE LET d == ParserParse(CleanContent(resp.content))
         IN  IF d.ok
             THEN [kind |-> "return",
                   decision |-> [tool_name |-> d.tool_name, tool_args |-> d.tool_args]]
             ELSE [kind |-> "continue"]

\* Faulty variant: `is None` tests instead of truthiness tests
FallbackNoneOnly(state) ==
    IF state.quotes = "none" THEN "flight_search_tool"
    ELSE IF state.agg_quotes = "none" THEN "aggregator_tool"
    ELSE IF state.screenshots = "none" THEN "screenshot_tool"
    ELSE IF state.analytics = "none" THEN "analytics_tool"
    ELSE "response_builder"

\* Faulty variant: the agg_quotes test is missing
FallbackSkipAgg(state) ==
    IF Falsy(state.quotes) THEN "flight_search_tool"
    ELSE IF Falsy(state.screenshots) THEN "screenshot_tool"
    ELSE IF Falsy(state.analytics) THEN "analytics_tool"
    ELSE "response_builder"

\* graph.py 142-157: the deterministic fallback.
Fallback(state) ==
    IF Falsy(state.quotes) THEN "flight_search_tool"
    ELSE IF Falsy(state.agg_quotes) THEN "aggregator_tool"
    ELSE IF Falsy(state.screenshots) THEN "screenshot_tool"
    ELSE IF Falsy(state.analytics) THEN "analytics_tool"
    ELSE "response_builder"

\* Faulty variant: range(MAX_ROUTER_RETRIES)
RouterAttemptsNoFirst == MAX_ROUTER_RETRIES

\* graph.py 101: range(1 + MAX_ROUTER_RETRIES)
RouterAttempts == 1 + MAX_ROUTER_RETRIES

\* What an oracle call produced, as recorded per attempt: the kind of failure,
\* or the tool_name and tool_args of a schema-valid answer.
Digest(resp) ==
    IF resp.kind # "content" THEN [kind |-> resp.kind]
    ELSE LET b == CHOOSE x \in Bodies :
                      \E i \in 1..Len(resp.content) : resp.content[i] = x
         IN  IF b.kind = "text" THEN [kind |-> "text"]
             ELSE IF b.tool_name \notin ALLOWED_TOOL_NAMES
                  THEN [kind |-> "bad_name"]
             ELSE [kind |-> "valid", tool_name |-> b.tool_name,
                   tool_args |-> IF b.tool_args = "absent" THEN "{}"
                                 ELSE b.tool_args]

-----------------------------------------------------------------------------
(* The compiled graph *)

\* graph.py 181-186: the nodes besides the router.
ToolNodes ==
    {"flight_search", "aggregate_quotes", "screenshot_data", "analyse_quotes"}

Nodes == ToolNodes \cup {"response_builder"}

\* graph.py 192-202: the mapping given to add_conditional_edges.
ConditionalEdges ==
    [k \in Nodes \cup {"finish"} |-> IF k = "finish" THEN "END" ELSE k]

\* Where the router's tool_name leads: the entry of the mapping under that
\* key, if there is one.
Resolve(token) ==
    IF token \in DOMAIN ConditionalEdges THEN ConditionalEdges[token]
    ELSE "no_edge"

\* Faulty variant: response_builder is in the tuple of nodes that loop back
EdgeFromAllToRouter(node) == "router"

\* graph.py 204-209: tool nodes loop back to the router, the response builder
\* ends the run.
EdgeFrom(node) == IF node \in ToolNodes THEN "router" ELSE "END"

\* The GraphState field a tool node fills.
FieldOf(node) ==
    CASE node = "flight_search"    -> "quotes"
      [] node = "aggregate_quotes" -> "agg_quotes"
      [] node = "screenshot_data"  -> "screenshots"
      [] node = "analyse_quotes"   -> "analytics"

\* largest number of node executions in one run
MaxSteps == 8

NoBefore == [gs |-> [f \in Fields |-> "none"], final |-> "none", set |-> FALSE]

\* state.py 19-27: the request of a run (two distinct requests suffice).
UserQueries == {"LHR-JFK", "CDG-AMS"}

NoCheckpoint == [set |-> FALSE, gs |-> [f \in Fields |-> "none"]]

\* graph.py 176, 211: the graph is compiled with the MemorySaver `memory` as
\* checkpointer, so the GraphState is written to it when the run starts and
\* each time a node has finished and its update is applied.  The write is
\* unconditional: GraphState carries no version and nothing compares one.
Checkpoint(st) ==
    /\ saved' = [set |-> TRUE, gs |-> st]
    /\ puts' = puts + 1

\* state.py 29-34: the version of a GraphState, 0 as it has no such field.
VersionOf(st) == IF "version" \in DOMAIN st THEN st["version"] ELSE 0

NothingYet == [kind |-> "none"]

\* runner.py 48-53: the dict run_agent returns when the graph has ended.
RunAgentResult(st) ==
    [kind |-> "result", quotes |-> st.quotes, aggregated_quotes |-> st.agg_quotes,
     screenshots |-> st.screenshots, analytics |-> st.analytics]

\* runner.py 55-57: the exception is logged and re-raised as it is; it
\* carries no GraphState.
RunAgentError(e) == [kind |-> "error", exc |-> e, has_state |-> FALSE]

\* Faulty variant: the exception of a node is swallowed and the router decides
\* again
NodeRaisesSwallowed(node) == "router"

\* graph.py 182-186, runner.py 55-57: no node catches an exception of its
\* tool, so the exception leaves the graph and the run has failed.
NodeRaises(node) == "failed"

\* Faulty variant: the node's update resets the fields it does not fill
MergeClobber(node, st, res) ==
    [f \in Fields |-> IF node \in ToolNodes /\ f = FieldOf(node) THEN res
                      ELSE "none"]

\* graph.py 182-186: the update of a node is merged into the GraphState: a
\* tool node fills its own field, the response builder fills none.
Merge(node, st, res) ==
    IF node \in ToolNodes THEN [st EXCEPT ![FieldOf(node)] = res] ELSE st

EnterRouter ==
    /\ attempt' = 0
    /\ calls' = 0
    /\ oracleLog' = <<>>
    /\ decision' = NoDecision
    /\ dsource' = "none"

\* graph.py 190: START -> router
StartRun ==
    /\ pc = "START"
    /\ pc' = "router"
    /\ EnterRouter
    /\ Checkpoint(gs)
    /\ UNCHANGED <<gs, final, usedOracle, trace, err, before, start,
                   user_query, callerGot>>
    /\ UNCHANGED fanVars
    /\ UNCHANGED harnessVars

\* graph.py 101-140: one iteration of the router's loop, with one oracle call.
RouterAttempt ==
    /\ pc = "router"
    /\ attempt < RouterAttempts
    /\ \E resp \in OracleResponses :
          LET r == RouterTry(resp) IN
          /\ calls' = calls + 1
          /\ oracleLog' = Append(oracleLog, Digest(resp))
          /\ IF r.kind = "return"
             THEN /\ decision' = r.decision
                  /\ dsource' = "oracle"
                  /\ usedOracle' = TRUE
                  /\ before' = [gs |-> gs, final |-> final, set |-> TRUE]
                  /\ pc' = "route"
                  /\ Checkpoint(gs)
                  /\ UNCHANGED <<attempt, err, callerGot>>
             ELSE IF r.kind = "continue"
             THEN /\ attempt' = attempt + 1
                  /\ UNCHANGED <<decision, dsource, usedOracle, before, pc, err,
                                 saved, puts, callerGot>>
             ELSE /\ pc' = "failed"
                  /\ err' = "RouterRaised"
                  /\ callerGot' = RunAgentError("RouterRaised")
                  /\ UNCHANGED <<attempt, decision, dsource, usedOracle, before,
                                 saved, puts>>
    /\ UNCHANGED <<gs, final, trace, start, user_query>>
    /\ UNCHANGED fanVars
    /\ UNCHANGED harnessVars

\* graph.py 142-157: the loop is exhausted, the deterministic fallback decides.
RouterFallback ==
    /\ pc = "router"
    /\ attempt >= RouterAttempts
    /\ decision' = [tool_name |-> Fallback(gs), tool_args |-> "{}"]
    /\ dsource' = "fallback"
    /\ before' = [gs |-> gs, final |-> final, set |-> TRUE]
    /\ pc' = "route"
    /\ Checkpoint(gs)
    /\ UNCHANGED <<gs, final, attempt, calls, oracleLog, usedOracle, trace, err,
                   start, user_query, callerGot>>
    /\ UNCHANGED fanVars
    /\ UNCHANGED harnessVars

\* graph.py 192-202: the conditional edges of the router.
Route ==
    /\ pc = "route"
    /\ LET to == Resolve(decision.tool_name) IN
          IF to = "no_edge"
          THEN /\ pc' = "failed"
               /\ err' = "NoEdge"
               /\ callerGot' = RunAgentError("NoEdge")
          ELSE /\ pc' = to
               /\ callerGot' = IF to = "END" THEN RunAgentResult(gs)
                                ELSE callerGot
               /\ UNCHANGED err
    /\ UNCHANGED <<gs, final, attempt, calls, oracleLog, decision, dsource,
                   usedOracle, trace, before, start, user_query, saved, puts>>
    /\ UNCHANGED fanVars
    /\ UNCHANGED harnessVars

\* graph.py 182-186, 204-209: a node runs and its edge is followed.  A tool
\* returns a non-empty or an empty result, or raises; an exception ends the run
\* (runner.py 55-57).
ExecuteNode ==
    /\ pc \in Nodes
    /\ Len(trace) < MaxSteps
    /\ \E res \in {"full", "empty", "raise"} :
          IF res = "raise"
          THEN /\ pc' = NodeRaises(pc)
               /\ err' = "ToolError"
               /\ callerGot' = RunAgentError("ToolError")
               /\ UNCHANGED <<gs, final, attempt, calls, oracleLog, decision,
                              dsource, saved, puts>>
          ELSE /\ gs' = Merge(pc, gs, res)
               /\ final' = IF pc = "response_builder" THEN res ELSE final
               /\ Checkpoint(Merge(pc, gs, res))
               /\ pc' = EdgeFrom(pc)
               /\ IF EdgeFrom(pc) = "router"
                  THEN EnterRouter /\ UNCHANGED callerGot
                  ELSE /\ callerGot' = RunAgentResult(Merge(pc, gs, res))
                       /\ UNCHANGED <<attempt, calls, oracleLog, decision,
                                      dsource>>
               /\ UNCHANGED err
    /\ trace' = Append(trace, pc)
    /\ UNCHANGED <<usedOracle, before, start, user_query>>
    /\ UNCHANGED fanVars
    /\ UNCHANGED harnessVars

NoTrace == [kind |-> "none"]

\* graph.py 66: tool_map = {} before initialize_tools has run
EmptyToolMap == [k \in {} |-> k]

TraceIdle ==
    /\ traceIn = NoTrace
    /\ traceOut = NoTrace

BootIdle ==
    /\ discovered = {}
    /\ tool_map = EmptyToolMap
    /\ boot = "none"

NoCapture ==
    [fn |-> "none", url |-> "", at |-> "none", browser |-> "none",
     done |-> "none", result |-> [kind |-> "pending"]]

HarnessIdle ==
    /\ TraceIdle
    /\ BootIdle
    /\ cap = NoCapture

FanIdle ==
    /\ reqs = <<>>
    /\ entered = 0
    /\ waiters = <<>>
    /\ running = {}
    /\ semValue = 0
    /\ outcome = <<>>
    /\ order = <<>>
    /\ batch = "idle"
    /\ results = <<>>

\* A run starts at START with the GraphState the caller passes in.
Init ==
    /\ pc = "START"
    /\ gs \in GraphState
    /\ final = "none"
    /\ start = [gs |-> gs, final |-> final]
    /\ attempt = 0
    /\ calls = 0
    /\ oracleLog = <<>>
    /\ decision = NoDecision
    /\ dsource = "none"
    /\ usedOracle = FALSE
    /\ trace = <<>>
    /\ err = "none"
    /\ before = NoBefore
    /\ user_query \in UserQueries
    /\ saved = NoCheckpoint
    /\ puts = 0
    /\ callerGot = NothingYet
    /\ FanIdle
    /\ HarnessIdle

Next ==
    \/ StartRun
    \/ RouterAttempt
    \/ RouterFallback
    \/ Route
    \/ ExecuteNode

Spec == Init /\ [][Next]_vars

-----------------------------------------------------------------------------
(* The deterministic rule applied repeatedly *)

\* The GraphState field whose emptiness makes the rule return a token.
FieldOfToken(token) ==
    CASE token = "flight_search_tool" -> "quotes"
      [] token = "aggregator_tool"    -> "agg_quotes"
      [] token = "screenshot_tool"    -> "screenshots"
      [] token = "analytics_tool"     -> "analytics"

StageTokens ==
    <<"flight_search_tool", "aggregator_tool", "screenshot_tool", "analytics_tool">>

IsStageToken(token) == \E i \in 1..Len(StageTokens) : StageTokens[i] = token

\* Any GraphState, with or without an answer already composed.
InitRule ==
    /\ pc = "rule"
    /\ gs \in GraphState
    /\ final \in {"none", "full"}
    /\ start = [gs |-> gs, final |-> final]
    /\ attempt = 0
    /\ calls = 0
    /\ oracleLog = <<>>
    /\ decision = NoDecision
    /\ dsource = "none"
    /\ usedOracle = FALSE
    /\ trace = <<>>
    /\ err = "none"
    /\ before = NoBefore
    /\ user_query = "LHR-JFK"
    /\ saved = NoCheckpoint
    /\ puts = 0
    /\ callerGot = NothingYet
    /\ FanIdle
    /\ HarnessIdle

\* The rule is applied to the current GraphState and the stage it returns is
\* marked complete: a stage token fills its field, response_builder produces
\* the answer.
ApplyRule ==
    /\ pc = "rule"
    /\ Len(trace) < MaxApply
    /\ LET token == Fallback(gs) IN
          /\ decision' = [tool_name |-> token, tool_args |-> "{}"]
          /\ trace' = Append(trace, token)
          /\ IF IsStageToken(token)
             THEN gs' = [gs EXCEPT ![FieldOfToken(token)] = "full"]
                  /\ UNCHANGED final
             ELSE IF token = "response_builder"
             THEN final' = "full" /\ UNCHANGED gs
             ELSE UNCHANGED <<gs, final>>
    /\ before' = [gs |-> gs, final |-> final, set |-> TRUE]
    /\ dsource' = "fallback"
    /\ UNCHANGED <<pc, attempt, calls, oracleLog, usedOracle, err, start,
                   user_query, saved, puts, callerGot>>
    /\ UNCHANGED fanVars
    /\ UNCHANGED harnessVars

NextRule == ApplyRule

SpecRule == InitRule /\ [][NextRule]_vars

-----------------------------------------------------------------------------
(* take_screenshots: bounded fan-out of _capture_one *)

\* screenshot.py 86: asyncio.Semaphore(3)
SEMAPHORE_SLOTS == 3

\* The page URL of the i-th request.
PageUrls ==
    <<"https://page/1", "https://page/2", "https://page/3", "https://page/4",
      "https://page/5", "https://page/6">>

\* URL of an uploaded screenshot.
S3Url == "https://bucket.s3.amazonaws.com/shot.png"

\* What happens inside the try block of _capture_one: everything succeeds, a
\* call raises (navigation, screenshot, upload), or the upload has no
\* credentials and _upload_to_s3 returns None.
Fates == {"ok", "page_error", "no_s3_url"}

\* pydantic HttpUrl: the empty string is no URL.
ValidHttpUrl(u) == u # ""

\* screenshot_model.py 10-13: constructing a ScreenshotResult validates both
\* URL fields and raises ValidationError when one is invalid.
ScreenshotResult(original_url, screenshot_url, error) ==
    IF ValidHttpUrl(original_url) /\ ValidHttpUrl(screenshot_url)
    THEN [kind |-> "result", original_url |-> original_url,
          screenshot_url |-> screenshot_url, error |-> error]
    ELSE [kind |-> "raise", exc |-> "ValidationError"]

\* screenshot.py 38-79: _capture_one.  The try block builds the result from
\* `s3_url or ""`; any exception in it is caught and the handler builds a
\* result with screenshot_url "" and the error text; an exception raised by
\* the handler leaves the function after the browser is closed.
capture_one(page_url, fate) ==
    LET tried == IF fate = "page_error"
                 THEN [kind |-> "raise", exc |-> "Error"]
                 ELSE ScreenshotResult(page_url,
                                       IF fate = "ok" THEN S3Url ELSE "",
                                       "None")
    IN  IF tried.kind = "raise"
        THEN ScreenshotResult(page_url, "", tried.exc)
        ELSE tried

\* Faulty variant: the semaphore never blocks
LockedNever(value, queue) == FALSE

\* asyncio.Semaphore.locked(): no free slot, or tasks already queued.
Locked(value, queue) == value = 0 \/ queue # <<>>

Pending == [kind |-> "pending"]

\* screenshot.py 83-93: take_screenshots is called with 0..MaxReqs requests; a
\* coroutine and a _guard task are created per request and gather awaits them.
InitFan ==
    /\ pc = "fan"
    /\ gs = [f \in Fields |-> "none"]
    /\ final = "none"
    /\ start = [gs |-> gs, final |-> final]
    /\ attempt = 0
    /\ calls = 0
    /\ oracleLog = <<>>
    /\ decision = NoDecision
    /\ dsource = "none"
    /\ usedOracle = FALSE
    /\ trace = <<>>
    /\ err = "none"
    /\ before = NoBefore
    /\ user_query = "LHR-JFK"
    /\ saved = NoCheckpoint
    /\ puts = 0
    /\ callerGot = NothingYet
    /\ \E n \in 0..MaxReqs : reqs \in [1..n -> Fates]
    /\ entered = 0
    /\ waiters = <<>>
    /\ running = {}
    /\ semValue = SEMAPHORE_SLOTS
    /\ outcome = [i \in 1..Len(reqs) |-> Pending]
    /\ order = <<>>
    /\ batch = IF Len(reqs) = 0 THEN "returned" ELSE "awaiting"
    /\ results = <<>>
    /\ HarnessIdle

\* screenshot.py 88-90: the next _guard task runs up to `async with semaphore`:
\* it takes a slot and starts its capture, or queues behind the semaphore.
GuardEnter ==
    /\ entered < Len(reqs)
    /\ entered' = entered + 1
    /\ IF Locked(semValue, waiters)
       THEN /\ waiters' = Append(waiters, entered + 1)
            /\ UNCHANGED <<running, semValue>>
       ELSE /\ running' = running \cup {entered + 1}
            /\ semValue' = semValue - 1
            /\ UNCHANGED waiters
    /\ UNCHANGED <<reqs, outcome, order, batch, results>>
    /\ UNCHANGED agentVars
    /\ UNCHANGED harnessVars

\* screenshot.py 88-93: the capture of task i ends.  _guard leaves the
\* `async with`: the slot is released and handed to the first queued task.
\* gather sees the task done: the first exception ends the awaiting
\* take_screenshots with that exception (the other tasks keep running); when
\* every task has returned, take_screenshots returns the results in the order
\* of the requests.
CaptureDone(i) ==
    /\ i \in running
    /\ outcome[i].kind = "pending"
    /\ LET r == capture_one(PageUrls[i], reqs[i])
           out == [outcome EXCEPT ![i] = r]
       IN  /\ outcome' = out
           /\ IF batch # "awaiting" THEN UNCHANGED <<batch, results>>
              ELSE IF r.kind = "raise"
              THEN batch' = "raised" /\ UNCHANGED results
              ELSE IF \A j \in 1..Len(reqs) : out[j].kind = "result"
              THEN batch' = "returned"
                   /\ results' = [j \in 1..Len(reqs) |-> out[j]]
              ELSE UNCHANGED <<batch, results>>
    /\ IF waiters # <<>>
       THEN /\ running' = (running \ {i}) \cup {Head(waiters)}
            /\ waiters' = Tail(waiters)
            /\ UNCHANGED semValue
       ELSE /\ running' = running \ {i}
            /\ semValue' = semValue + 1
            /\ UNCHANGED waiters
    /\ order' = Append(order, i)
    /\ UNCHANGED <<reqs, entered>>
    /\ UNCHANGED agentVars
    /\ UNCHANGED harnessVars

NextFan ==
    \/ GuardEnter
    \/ \E i \in 1..Len(reqs) : CaptureDone(i)

SpecFan == InitFan /\ [][NextFan]_vars

-----------------------------------------------------------------------------
(* Properties of the router and of a run of the graph (Spec) *)

\* The fixed token set: search, aggregate, enrich, analyze, compose, terminal.
FixedTokens ==
    {"flight_search_tool", "aggregator_tool", "screenshot_tool",
     "analytics_tool", "response_builder", "finish"}

\* The deterministic rule as a relation between a GraphState and a token.
RuleToken(st, fin) ==
    IF st["quotes"] # "full" THEN "flight_search_tool"
    ELSE IF st["agg_quotes"] # "full" THEN "aggregator_tool"
    ELSE IF st["screenshots"] # "full" THEN "screenshot_tool"
    ELSE IF st["analytics"] # "full" THEN "analytics_tool"
    ELSE IF fin = "none" THEN "response_builder"
    ELSE "finish"

\* C1: whatever the oracle does on each attempt (valid answer, malformed
\* answer, token outside the allowed set, exception), a router invocation never
\* raises and returns one decision whose token is in the fixed token set.
C1_RouterTotal ==
    /\ err # "RouterRaised"
    /\ pc = "router" => decision = NoDecision
    /\ pc = "route" =>
          /\ decision.tool_name \in FixedTokens
          /\ decision.tool_args \in ToolArgs
          /\ dsource \in {"oracle", "fallback"}

\* The oracle raised, then answered with text, then with a token outside the
\* allowed set, and the router returned a decision.
C1_Witness ==
    /\ pc = "route"
    /\ Len(oracleLog) = 3
    /\ oracleLog[1].kind = "raise"
    /\ oracleLog[2].kind = "text"
    /\ oracleLog[3].kind = "bad_name"
    /\ decision.tool_name \in FixedTokens

\* C2: no router invocation makes more than 1 + MAX_ROUTER_RETRIES oracle
\* calls; when every call returned unparseable output the router has made
\* exactly 1 + MAX_ROUTER_RETRIES calls and returns the decision of the
\* deterministic rule for the current GraphState.
C2_BoundedRetry ==
    /\ calls <= 1 + MAX_ROUTER_RETRIES
    /\ calls = Len(oracleLog)
    /\ (/\ pc = "route"
        /\ \A k \in 1..Len(oracleLog) : oracleLog[k].kind = "text")
          => /\ calls = 1 + MAX_ROUTER_RETRIES
             /\ dsource = "fallback"
             /\ decision = [tool_name |-> RuleToken(gs, final), tool_args |-> "{}"]

\* Three unparseable answers, then the fallback decided.
C2_Witness ==
    /\ pc = "route"
    /\ calls = 3
    /\ \A k \in 1..Len(oracleLog) : oracleLog[k].kind = "text"
    /\ dsource = "fallback"
    /\ decision.tool_name = "screenshot_tool"

\* C3: a decision that came from the oracle is the token and the arguments of
\* the last oracle answer, that answer is the only schema-valid one among the
\* attempts, and no oracle call follows a schema-valid answer.
C3_OraclePassthrough ==
    /\ (pc = "route" /\ dsource = "oracle") =>
          LET last == oracleLog[Len(oracleLog)] IN
          /\ last.kind = "valid"
          /\ decision.tool_name = last.tool_name
          /\ decision.tool_args = last.tool_args
          /\ calls = Len(oracleLog)
    /\ \A k \in 1..Len(oracleLog) :
          oracleLog[k].kind = "valid" =>
              /\ k = Len(oracleLog)
              /\ pc # "router"
              /\ dsource = "oracle"

\* The first oracle call answered aggregate with empty arguments while
\* aggregate was incomplete, and the router returned it after that one call.
C3_Witness ==
    /\ pc = "route"
    /\ calls = 1
    /\ gs.agg_quotes = "none"
    /\ oracleLog[1] = [kind |-> "valid", tool_name |-> "aggregator_tool",
                       tool_args |-> "{}"]
    /\ decision = [tool_name |-> "aggregator_tool", tool_args |-> "{}"]

\* C6: a run that starts from an empty GraphState, takes no decision from the
\* oracle and in which every capability returns a non-empty result, ends at
\* END after executing search, aggregate, enrich, analyze, compose once each in
\* that order, with a non-empty final and four non-empty results.
C6_EndToEnd ==
    (/\ pc \in {"END", "failed"}
     /\ \A f \in Fields : start.gs[f] = "none"
     /\ ~usedOracle
     /\ err # "ToolError"
     /\ \A f \in Fields : gs[f] # "empty"
     /\ final # "empty")
        => /\ pc = "END"
           /\ trace = <<"flight_search", "aggregate_quotes", "screenshot_data",
                        "analyse_quotes", "response_builder">>
           /\ final = "full"
           /\ \A f \in Fields : gs[f] = "full"

\* C7: a run whose oracle answers with the token of an already-complete stage
\* ends in failed only with the no-progress error of the iteration cap.
C7_NoProgressError ==
    (/\ pc = "failed"
     /\ before.set
     /\ dsource = "oracle"
     /\ IsStageToken(decision.tool_name)
     /\ before.gs[FieldOfToken(decision.tool_name)] = "full")
        => err = "NoProgressError"

-----------------------------------------------------------------------------
(* Properties of the deterministic rule (SpecRule) *)

\* A stage is complete iff its entry is present and non-empty.
Complete(st, token) == st[FieldOfToken(token)] = "full"

\* The stages of st that are not complete, in priority order.
Incomplete(st) == SelectSeq(StageTokens, LAMBDA t : ~Complete(st, t))

\* C4 as stated: the rule returns the first incomplete stage in the order
\* search, aggregate, enrich, analyze; with all four complete it returns
\* compose when no final answer exists and terminal when one exists.
C4_RuleWithTerminal ==
    before.set =>
        decision.tool_name =
            IF Incomplete(before.gs) # <<>> THEN Head(Incomplete(before.gs))
            ELSE IF before.final = "none" THEN "response_builder"
            ELSE "finish"

\* C4 amended: the rule returns the first incomplete stage in the order
\* search, aggregate, enrich, analyze; with all four complete it returns
\* compose, whether or not a final answer exists.  The token is a function of
\* the four result fields alone.
C4_RuleFirstIncompleteElseCompose ==
    before.set =>
        /\ \A i \in 1..Len(StageTokens) :
              (/\ ~Complete(before.gs, StageTokens[i])
               /\ \A j \in 1..(i - 1) : Complete(before.gs, StageTokens[j]))
                  => decision.tool_name = StageTokens[i]
        /\ (\A i \in 1..Len(StageTokens) : Complete(before.gs, StageTokens[i]))
              => decision.tool_name = "response_builder"
        /\ decision.tool_args = "{}"

\* The rule was applied to a state with all four stages complete and a final
\* answer present, and returned compose.
C4_Witness ==
    /\ before.set
    /\ \A i \in 1..Len(StageTokens) : Complete(before.gs, StageTokens[i])
    /\ before.final = "full"
    /\ decision.tool_name = "response_builder"

\* C5 as stated: repeated application returns every token among search,
\* aggregate, enrich, analyze, compose that was not complete at the start,
\* once each and in that order, and returns terminal from then on.
C5_VisitsThenTerminal ==
    LET todo == Incomplete(start.gs)
                    \o (IF start.final = "none" THEN <<"response_builder">>
                        ELSE <<>>)
    IN  \A k \in 1..Len(trace) :
            trace[k] = IF k <= Len(todo) THEN todo[k] ELSE "finish"

\* C5 amended: repeated application returns every stage among search,
\* aggregate, enrich, analyze that was not complete at the start, once each
\* and in that order, and returns compose on every application after that; it
\* never returns terminal.
C5_VisitsThenCompose ==
    LET todo == Incomplete(start.gs)
    IN  \A k \in 1..Len(trace) :
            trace[k] = IF k <= Len(todo) THEN todo[k] ELSE "response_builder"

\* From the empty GraphState the rule has returned the four stages and compose
\* and has been applied once more.
C5_Witness ==
    /\ \A f \in Fields : start.gs[f] = "none"
    /\ start.final = "none"
    /\ Len(trace) >= 6
    /\ trace[5] = "response_builder"
    /\ trace[6] = "response_builder"

-----------------------------------------------------------------------------
(* Properties of take_screenshots (SpecFan) *)

BatchEnded == batch \in {"returned", "raised"}

\* C8: whatever the requests and the completion order, the batch returns a
\* list with one result per request, the i-th being the result of the i-th
\* request.
C8_ResultsInInputOrder ==
    BatchEnded =>
        /\ batch = "returned"
        /\ Len(results) = Len(reqs)
        /\ \A i \in 1..Len(reqs) :
              /\ results[i].kind = "result"
              /\ results[i].original_url = PageUrls[i]

\* C9: at most SEMAPHORE_SLOTS captures are in flight in every state, also
\* with more requests than slots; a capture that ends leaves the set of
\* captures in flight, and the first queued task, if any, takes its slot.
C9_AtMostThreeInFlight ==
    /\ [](/\ Cardinality(running) <= 3
          /\ semValue >= 0
          /\ semValue + Cardinality(running) = 3
          /\ \A k \in 1..Len(waiters) : waiters[k] \notin running)
    /\ [][\A i \in running :
             i \notin running' =>
                 IF waiters # <<>>
                 THEN /\ Head(waiters) \in running'
                      /\ Cardinality(running') = Cardinality(running)
                 ELSE /\ Cardinality(running') = Cardinality(running) - 1
                      /\ semValue' = semValue + 1]_vars

\* Four requests: three captures were in flight, one ended and the fourth
\* request took the freed slot.
C9_Witness ==
    /\ Len(reqs) = 4
    /\ Len(order) = 1
    /\ 4 \in running
    /\ Cardinality(running) = 3
    /\ waiters = <<>>

\* C10: when the worker fails for some requests and succeeds for the others,
\* the batch still returns one result per request: the slots of the failing
\* requests hold an error value, the others their successful result.
C10_PartialFailureIsolated ==
    (/\ BatchEnded
     /\ \E i \in 1..Len(reqs) : reqs[i] # "ok"
     /\ \E i \in 1..Len(reqs) : reqs[i] = "ok")
        => /\ batch = "returned"
           /\ Len(results) = Len(reqs)
           /\ \A i \in 1..Len(reqs) :
                 IF reqs[i] = "ok"
                 THEN results[i].kind = "result" /\ results[i].error = "None"
                 ELSE results[i].kind = "result" /\ results[i].error # "None"

-----------------------------------------------------------------------------
(* C11: a failing capability call *)

-----------------------------------------------------------------------------
(* C12: the end of a run and the step after a decision *)

\* The tokens of compose and of the domain stages.
ExecutableTokens == ALLOWED_TOOL_NAMES \ {"finish"}

\* C12: END and failed are absorbing (in them no decision is requested, no
\* node runs and nothing changes); after a decision the run goes to END
\* exactly when the token is finish, and to a node when the token is
\* response_builder or the token of a domain stage.
C12_AbsorbingAndDispatch ==
    /\ [][(pc \in {"END", "failed"}) => UNCHANGED vars]_vars
    /\ [][pc = "route" =>
            ((pc' = "END" <=> decision.tool_name = "finish")
             /\ (decision.tool_name \in ExecutableTokens => pc' \in Nodes))]_vars

-----------------------------------------------------------------------------
(* C13: checkpoints and versions *)

\* C13: a checkpoint is written over a stored one only with a strictly higher
\* version (a write whose version is lower than or equal to the stored one is
\* rejected and leaves the stored checkpoint unchanged), so the stored
\* version never decreases.
C13_StaleWriteRejected ==
    /\ [][(puts' # puts /\ saved.set) =>
            VersionOf(saved'.gs) > VersionOf(saved.gs)]_vars
    /\ [][(saved.set /\ saved'.set) =>
            VersionOf(saved'.gs) >= VersionOf(saved.gs)]_vars

-----------------------------------------------------------------------------
(* Cancellation of a run and of a take_screenshots batch *)

\* Faulty variant: the children of gather are left running
CancelledChildrenNone(oc) == {}

\* screenshot.py 92: when the awaiting take_screenshots is cancelled,
\* asyncio.gather cancels every child that is not done.
CancelledChildren(oc) == {i \in DOMAIN oc : oc[i].kind = "pending"}

\* runner.py 46: the task awaiting agent.ainvoke is cancelled while the router
\* awaits the oracle or a node awaits its tool.  The update of the node in
\* progress is never applied and no checkpoint is written; CancelledError
\* leaves run_agent (it is no Exception, so it is not even logged).
CancelRun ==
    /\ pc \in {"router"} \cup Nodes
    /\ pc' = "failed"
    /\ err' = "Cancelled"
    /\ callerGot' = RunAgentError("Cancelled")
    /\ UNCHANGED <<gs, final, attempt, calls, oracleLog, decision, dsource,
                   usedOracle, trace, before, start, user_query, saved, puts>>
    /\ UNCHANGED fanVars
    /\ UNCHANGED harnessVars

\* screenshot.py 92: take_screenshots is cancelled while it awaits gather.
\* Children that wait for the semaphore or have not started end cancelled at
\* once; a child whose capture is in flight gets CancelledError at its await.
CancelBatch ==
    /\ batch = "awaiting"
    /\ batch' = "cancelled"
    /\ LET c == CancelledChildren(outcome) IN
          /\ outcome' = [i \in DOMAIN outcome |->
                           IF i \notin c THEN outcome[i]
                           ELSE IF i \in running THEN [kind |-> "cancelling"]
                           ELSE [kind |-> "cancelled"]]
          /\ waiters' = SelectSeq(waiters, LAMBDA i : i \notin c)
          /\ entered' = IF (entered + 1)..Len(reqs) \subseteq c THEN Len(reqs)
                        ELSE entered
    /\ UNCHANGED <<reqs, running, semValue, order, results>>
    /\ UNCHANGED agentVars
    /\ UNCHANGED harnessVars

\* screenshot.py 70-79, 88-90: CancelledError passes the `except Exception`
\* of _capture_one, its finally closes the browser, and _guard leaves the
\* `async with`, which releases the slot.
StopWorker(i) ==
    /\ i \in running
    /\ outcome[i].kind = "cancelling"
    /\ outcome' = [outcome EXCEPT ![i] = [kind |-> "cancelled"]]
    /\ IF waiters # <<>>
       THEN /\ running' = (running \ {i}) \cup {Head(waiters)}
            /\ waiters' = Tail(waiters)
            /\ UNCHANGED semValue
       ELSE /\ running' = running \ {i}
            /\ semValue' = semValue + 1
            /\ UNCHANGED waiters
    /\ UNCHANGED <<reqs, entered, order, batch, results>>
    /\ UNCHANGED agentVars
    /\ UNCHANGED harnessVars

\* Either a run of the graph or a batch of take_screenshots, each of which
\* may be cancelled.
InitCancel == Init \/ InitFan

NextCancel ==
    \/ Next
    \/ NextFan
    \/ CancelRun
    \/ CancelBatch
    \/ \E i \in 1..Len(reqs) : StopWorker(i)

SpecCancel == InitCancel /\ [][NextCancel]_vars

-----------------------------------------------------------------------------
(* C16: the version of the GraphState *)

\* C16: the version of the GraphState strictly increases over a run: every
\* merge of a node's result increments it, no other step changes it, and the
\* merged state is the stored checkpoint before the router decides again.
C16_VersionIncrements ==
    /\ [][(trace' # trace /\ err' = err) =>
            VersionOf(gs') = VersionOf(gs) + 1]_vars
    /\ [][(trace' = trace \/ err' # err) =>
            VersionOf(gs') = VersionOf(gs)]_vars
    /\ [](pc = "router" => saved = [set |-> TRUE, gs |-> gs])

-----------------------------------------------------------------------------
(* C17: what each step may change *)

-----------------------------------------------------------------------------
(* C19: failures of the oracle *)

\* C19: every failed oracle call (the call raising, content that is no
\* string, text that does not parse, a tool_name outside the allowed names)
\* consumes exactly one attempt and leaves the run in the router with no
\* error and no decision; the router then makes the next call or, after the
\* last attempt, takes the deterministic fallback; no failure of the oracle
\* ends the run or reaches the caller.
C19_FailureConsumesOneAttempt ==
    /\ [][(pc = "router" /\ calls' = calls + 1
           /\ oracleLog'[Len(oracleLog')].kind # "valid") =>
            (/\ attempt' = attempt + 1
             /\ pc' = "router"
             /\ err' = err
             /\ callerGot' = callerGot
             /\ decision' = NoDecision)]_vars
    /\ [](pc = "router" =>
            /\ attempt = calls
            /\ attempt = Len(oracleLog)
            /\ attempt <= RouterAttempts
            /\ \A i \in 1..Len(oracleLog) : oracleLog[i].kind # "valid"
            /\ (attempt < RouterAttempts => ENABLED RouterAttempt)
            /\ (attempt = RouterAttempts =>
                  (ENABLED RouterFallback /\ ~ENABLED RouterAttempt)))
    /\ [](err # "RouterRaised" /\ callerGot # RunAgentError("RouterRaised"))

C19_Witness ==
    /\ pc = "route"
    /\ dsource = "fallback"
    /\ err = "none"
    /\ Len(oracleLog) = RouterAttempts
    /\ oracleLog[1].kind = "nonstring"
    /\ oracleLog[2].kind = "bad_name"
    /\ oracleLog[3].kind = "raise"
    /\ decision.tool_name = Fallback(gs)

-----------------------------------------------------------------------------
(* C20: what the caller gets when a run has failed *)

\* C20: when a run has failed, the error given to the caller carries the
\* last good GraphState, and the stored checkpoint still holds every result
\* merged before the failure.
C20_ErrorCarriesState ==
    pc = "failed" =>
        /\ callerGot.kind = "error"
        /\ callerGot.has_state
        /\ saved = [set |-> TRUE, gs |-> gs]

-----------------------------------------------------------------------------
(* tracing.py: the trace decorator *)

\* What the wrapped node does when it is called.
NodeBehaviours == {"full", "empty", "raise"}

\* The wrapped function fn(state): it returns its delta or raises.
NodeCall(node, st, beh) ==
    IF beh = "raise" THEN [kind |-> "raise", exc |-> "ToolError"]
    ELSE [kind |-> "return", delta |-> [node |-> node, value |-> beh]]

\* tracing.py 53-66: _log_in logs the fields that are set on the state; it
\* reads the state and changes nothing.
LogIn(name, st) ==
    [dir |-> "in", name |-> name,
     input |-> [k \in {f \in Fields : st[f] # "none"} |-> st[k]]]

\* tracing.py 68-81: _log_out logs the delta.
LogOut(name, delta) == [dir |-> "out", name |-> name, delta |-> delta]

\* Calling the node as it is.
Untraced(name, st, beh) ==
    [result |-> NodeCall(name, st, beh), state |-> st, log |-> <<>>]

\* Faulty variant: the wrapper logs the delta and forgets to return it
TracedNoReturn(name, st, beh) ==
    LET r == NodeCall(name, st, beh)
    IN  IF r.kind = "raise"
        THEN [result |-> r, state |-> st, log |-> <<LogIn(name, st)>>]
        ELSE [result |-> [kind |-> "return",
                          delta |-> [node |-> "None", value |-> "None"]],
              state |-> st,
              log |-> <<LogIn(name, st), LogOut(name, r.delta)>>]

\* tracing.py 34-50: the wrappers _aw and _w have the same body: _log_in,
\* the call of fn, _log_out, return delta.  An exception of fn leaves the
\* wrapper before _log_out.
Traced(name, st, beh) ==
    LET r == NodeCall(name, st, beh)
    IN  IF r.kind = "raise"
        THEN [result |-> r, state |-> st, log |-> <<LogIn(name, st)>>]
        ELSE [result |-> r, state |-> st,
              log |-> <<LogIn(name, st), LogOut(name, r.delta)>>]

\* A node of the graph, wrapped by trace(name), is called on any GraphState.
InitTrace ==
    /\ pc = "trace"
    /\ gs \in GraphState
    /\ final = "none"
    /\ start = [gs |-> gs, final |-> final]
    /\ attempt = 0
    /\ calls = 0
    /\ oracleLog = <<>>
    /\ decision = NoDecision
    /\ dsource = "none"
    /\ usedOracle = FALSE
    /\ trace = <<>>
    /\ err = "none"
    /\ before = NoBefore
    /\ user_query = "LHR-JFK"
    /\ saved = NoCheckpoint
    /\ puts = 0
    /\ callerGot = NothingYet
    /\ FanIdle
    /\ traceIn \in [kind : {"call"}, node : Nodes \cup {"router"},
                    beh : NodeBehaviours]
    /\ traceOut = NoTrace
    /\ BootIdle
    /\ cap = NoCapture

\* The same call is made through the wrapper and without it.
CallTraced ==
    /\ pc = "trace"
    /\ pc' = "traced"
    /\ traceOut' = [kind |-> "done",
                    traced |-> Traced(traceIn.node, gs, traceIn.beh),
                    untraced |-> Untraced(traceIn.node, gs, traceIn.beh)]
    /\ UNCHANGED <<gs, final, attempt, calls, oracleLog, decision, dsource,
                   usedOracle, trace, err, before, start, user_query, saved,
                   puts, callerGot, traceIn, discovered, tool_map, boot, cap>>
    /\ UNCHANGED fanVars

NextTrace == CallTraced

SpecTrace == InitTrace /\ [][NextTrace]_vars

\* C21: the traced node returns the same delta or raises the same error as
\* the untraced node, leaves the state as the untraced node leaves it, and
\* logs the input once before the call and, when the call returns, the
\* delta once after it.
C21_TraceTransparent ==
    traceOut.kind = "done" =>
        LET t == traceOut.traced
            u == traceOut.untraced
        IN  /\ t.result = u.result
            /\ t.state = u.state
            /\ t.state = gs
            /\ Len(t.log) = IF u.result.kind = "return" THEN 2 ELSE 1
            /\ t.log[1] = LogIn(traceIn.node, gs)
            /\ (u.result.kind = "return" =>
                  t.log[2] = LogOut(traceIn.node, u.result.delta))

C21_Witness ==
    /\ traceOut.kind = "done"
    /\ traceIn.node = "flight_search"
    /\ traceIn.beh = "full"
    /\ gs.quotes = "empty"
    /\ traceOut.traced.result.kind = "return"
    /\ Len(traceOut.traced.log) = 2

-----------------------------------------------------------------------------
(* graph.py 54-83: the tool map built when the module is imported *)

\* The tools an MCP server may offer: the four tools of the stages, the first
\* also under a name prefixed with its server, and a tool no stage uses.
RawTools ==
    {[prefix |-> "none", name |-> "flight_search"],
     [prefix |-> "flighttools", name |-> "flight_search"],
     [prefix |-> "none", name |-> "aggregate_quotes"],
     [prefix |-> "none", name |-> "screenshot_data"],
     [prefix |-> "none", name |-> "analyse_quotes"],
     [prefix |-> "none", name |-> "health"]}

\* graph.py 59-60: _alias drops the part of the name up to the first "/".
Alias(t) == t.name

\* graph.py 80-83: the keys looked up in tool_map when the module is imported.
RequiredTools ==
    {"flight_search", "aggregate_quotes", "screenshot_data", "analyse_quotes"}

\* Faulty variant: tool_map.get(key), which gives None for a missing key
LookupGet(map, key) ==
    IF key \in DOMAIN map THEN [kind |-> "tool", tool |-> map[key]]
    ELSE [kind |-> "tool", tool |-> [prefix |-> "none", name |-> "None"]]

\* graph.py 80-83: tool_map[key] raises KeyError for a missing key.
Lookup(map, key) ==
    IF key \in DOMAIN map THEN [kind |-> "tool", tool |-> map[key]]
    ELSE [kind |-> "raise", exc |-> "KeyError"]

AgentIdle ==
    /\ gs = [f \in Fields |-> "none"]
    /\ final = "none"
    /\ start = [gs |-> gs, final |-> final]
    /\ attempt = 0
    /\ calls = 0
    /\ oracleLog = <<>>
    /\ decision = NoDecision
    /\ dsource = "none"
    /\ usedOracle = FALSE
    /\ trace = <<>>
    /\ err = "none"
    /\ before = NoBefore
    /\ user_query = "LHR-JFK"
    /\ saved = NoCheckpoint
    /\ puts = 0
    /\ callerGot = NothingYet

\* graph.py is imported; the MCP servers offer some set of tools.
InitBoot ==
    /\ pc = "boot"
    /\ AgentIdle
    /\ FanIdle
    /\ TraceIdle
    /\ cap = NoCapture
    /\ discovered \in SUBSET RawTools
    /\ tool_map = EmptyToolMap
    /\ boot = "importing"

\* graph.py 54-77: initialize_tools assigns the dict built by get_tool_map:
\* one entry per alias; of two tools with the same alias the later one of
\* the list stays.
InitializeTools ==
    /\ boot = "importing"
    /\ boot' = "initialized"
    /\ LET keys == {Alias(t) : t \in discovered} IN
          tool_map' \in {m \in [keys -> discovered] :
                           \A k \in keys : Alias(m[k]) = k}
    /\ UNCHANGED <<traceIn, traceOut, discovered, cap>>
    /\ UNCHANGED agentVars
    /\ UNCHANGED fanVars

\* graph.py 80-83, 176-211: the four tools are looked up; a KeyError ends the
\* import, otherwise the graph is built and compiled.
ResolveTools ==
    /\ boot = "initialized"
    /\ boot' = IF \E k \in RequiredTools : Lookup(tool_map, k).kind = "raise"
               THEN "fatal" ELSE "ready"
    /\ UNCHANGED <<traceIn, traceOut, discovered, tool_map, cap>>
    /\ UNCHANGED agentVars
    /\ UNCHANGED fanVars

\* A run of the compiled graph starts: flight_agent exists only when the
\* import has succeeded.
BootedRun ==
    /\ boot = "ready"
    /\ boot' = "running"
    /\ UNCHANGED <<traceIn, traceOut, discovered, tool_map, cap>>
    /\ UNCHANGED agentVars
    /\ UNCHANGED fanVars

NextBoot ==
    \/ InitializeTools
    \/ ResolveTools
    \/ BootedRun

SpecBoot == InitBoot /\ [][NextBoot]_vars

\* C22: a stage whose tool is not in the tool map is detected when the
\* module is imported and ends the import with an error; a run starts only
\* when each of the four stages has its tool; the tool map is not modified
\* once it has been built.
C22_UnresolvedToolIsFatal ==
    /\ [](boot \in {"ready", "running"} =>
            \A k \in RequiredTools :
                k \in DOMAIN tool_map /\ tool_map[k] \in discovered
                /\ Alias(tool_map[k]) = k)
    /\ [](boot = "fatal" => \E k \in RequiredTools : k \notin DOMAIN tool_map)
    /\ [][((boot = "initialized"
            /\ \E k \in RequiredTools : k \notin DOMAIN tool_map))
           => boot' = "fatal"]_vars
    /\ [][boot = "fatal" => UNCHANGED vars]_vars
    /\ [][(boot # "importing") => tool_map' = tool_map]_vars

C22_Witness ==
    /\ boot = "fatal"
    /\ "flight_search" \in DOMAIN tool_map
    /\ "health" \in DOMAIN tool_map
    /\ "screenshot_data" \notin DOMAIN tool_map

-----------------------------------------------------------------------------
(* C23: an oracle decision for a stage that is already complete *)

\* C23: when the oracle's schema-valid token names a stage whose result is
\* already present and non-empty, the step is a stage call without effect:
\* the run goes on (it does not fail on the routing step) and the GraphState
\* and the answer are as they were when the decision was taken.
C23_CompleteStageIsNoOp ==
    (/\ dsource = "oracle"
     /\ IsStageToken(decision.tool_name)
     /\ before.gs[FieldOfToken(decision.tool_name)] = "full")
    => (/\ gs = before.gs
        /\ final = before.final
        /\ err # "NoEdge")

-----------------------------------------------------------------------------
(* C24: the edges of the compiled graph *)

\* The graph at any of its nodes, or at START, with any GraphState: the edge
\* that leaves a node does not depend on how the node was reached.
InitEdges ==
    /\ pc \in Nodes \cup {"START"}
    /\ gs \in GraphState
    /\ final = "none"
    /\ start = [gs |-> gs, final |-> final]
    /\ attempt = 0
    /\ calls = 0
    /\ oracleLog = <<>>
    /\ decision = NoDecision
    /\ dsource = "none"
    /\ usedOracle = FALSE
    /\ trace = <<>>
    /\ err = "none"
    /\ before = NoBefore
    /\ user_query = "LHR-JFK"
    /\ saved = NoCheckpoint
    /\ puts = 0
    /\ callerGot = NothingYet
    /\ FanIdle
    /\ HarnessIdle

SpecEdges == InitEdges /\ [][Next]_vars

\* C24: a domain stage node that has finished is followed by the router (a
\* node that raises ends the run in failure); response_builder is followed by
\* END with no router decision in between; END is entered only from
\* response_builder or by the router's decision finish.
C24_EdgesOfTheGraph ==
    /\ [][(pc \in ToolNodes) =>
            (pc' \in {"router", "failed"} /\ (err' = err => pc' = "router"))]_vars
    /\ [][(pc = "response_builder" /\ err' = err) =>
            (pc' = "END" /\ calls' = calls /\ decision' = decision)]_vars
    /\ [][(pc' = "END" /\ pc # "END") =>
            (pc = "response_builder"
             \/ (pc = "route" /\ decision.tool_name = "finish"))]_vars

C24_Witness ==
    /\ trace = <<"aggregate_quotes", "response_builder">>
    /\ pc = "END"
    /\ start.gs.agg_quotes = "empty"
    /\ gs = [f \in Fields |-> "full"]
    /\ dsource = "fallback"

-----------------------------------------------------------------------------
(* C25: the router's tokens and the conditional edges *)

\* C25: every token the router returns, from the fallback or from a
\* schema-valid oracle answer, is a key of the conditional edges and leads to
\* a node of the graph or to END; the run never fails for want of an edge.
C25_TokenHasEdge ==
    /\ (pc = "route" =>
          /\ decision.tool_name \in DOMAIN ConditionalEdges
          /\ Resolve(decision.tool_name) \in Nodes \cup {"END"})
    /\ err # "NoEdge"

-----------------------------------------------------------------------------
(* C26: runs decided by the deterministic rule alone *)

\* C26: a run in which every decision came from the deterministic rule and
\* no call of a tool failed does not fail: it goes on until it reaches END.
C26_RuleAloneReachesEnd ==
    (~usedOracle /\ err # "ToolError") => pc # "failed"

-----------------------------------------------------------------------------
(* C27: the slots of the semaphore *)

\* C27: a capture runs only while it holds one of the 3 slots, a capture that
\* ends gives its slot back, and once take_screenshots has returned or
\* raised, all 3 slots are free and no capture is running.
C27_SlotsFreeAfterBatch ==
    /\ Cardinality(running) + semValue = SEMAPHORE_SLOTS
    /\ \A i \in running : i <= entered /\ outcome[i].kind = "pending"
    /\ (BatchEnded => (running = {} /\ semValue = SEMAPHORE_SLOTS))

-----------------------------------------------------------------------------
(* One capture, step by step: _capture_one (screenshot.py) and _go (tasks.py) *)

CaptureFns == {"_capture_one", "_go"}

CaptureUrls == {PageUrls[i] : i \in 1..Len(PageUrls)}

\* What a step of a capture can do.  The upload of _go evaluates
\* AWS_S3_BUCKET_NAME, a name tasks.py never defines, so it raises.
StepOutcomes(fn, at) ==
    CASE at \in {"launch", "setup"} -> {"ok", "raise"}
      [] fn = "_capture_one" /\ at = "try" -> Fates
      [] fn = "_capture_one" /\ at = "finally" -> {"ok"}
      [] fn = "_go" /\ at \in {"goto", "screenshot", "open"} -> {"ok", "raise"}
      [] fn = "_go" /\ at = "upload" -> {"raise"}
      [] fn = "_go" /\ at = "close" -> {"ok"}

Raised(c, exc) ==
    [c EXCEPT !.done = "raised", !.result = [kind |-> "raise", exc |-> exc]]

\* screenshot.py 38-79: the browser is launched (38), the context and the
\* page are set up outside the try (39-49), the try block and its handler
\* produce a result or raise (51-75), the finally closes the browser (76-77)
\* and the result is returned or the exception leaves the function.
CaptureOneStep(c, out) ==
    CASE c.at = "launch" ->
            IF out = "ok" THEN [c EXCEPT !.at = "setup", !.browser = "open"]
            ELSE Raised(c, "Error")
      [] c.at = "setup" ->
            IF out = "ok" THEN [c EXCEPT !.at = "try"]
            ELSE Raised(c, "Error")
      [] c.at = "try" ->
            [c EXCEPT !.at = "finally", !.result = capture_one(c.url, out)]
      [] c.at = "finally" ->
            [c EXCEPT !.browser = "closed",
                      !.done = IF c.result.kind = "raise" THEN "raised"
                               ELSE "returned"]

\* tasks.py 23-69: the browser is launched (25), the context and the page
\* are set up (27-37), an exception of the navigation block returns an error
\* dict (39-53), the screenshot (57), the opening of the file (63) and the
\* upload (65) are outside any try, and browser.close() follows them (67).
GoStep(c, out) ==
    CASE c.at = "launch" ->
            IF out = "ok" THEN [c EXCEPT !.at = "setup", !.browser = "open"]
            ELSE Raised(c, "Error")
      [] c.at = "setup" ->
            IF out = "ok" THEN [c EXCEPT !.at = "goto"]
            ELSE Raised(c, "Error")
      [] c.at = "goto" ->
            IF out = "ok" THEN [c EXCEPT !.at = "screenshot"]
            ELSE [c EXCEPT !.done = "returned",
                           !.result = [kind |-> "error_dict", url |-> c.url]]
      [] c.at = "screenshot" ->
            IF out = "ok" THEN [c EXCEPT !.at = "open"]
            ELSE Raised(c, "Error")
      [] c.at = "open" ->
            IF out = "ok" THEN [c EXCEPT !.at = "upload"]
            ELSE Raised(c, "FileNotFoundError")
      [] c.at = "upload" ->
            IF out = "ok"
            THEN [c EXCEPT !.at = "close",
                           !.result = [kind |-> "path_dict", url |-> c.url]]
            ELSE Raised(c, "NameError")
      [] c.at = "close" ->
            [c EXCEPT !.browser = "closed", !.done = "returned"]

\* One capture of one URL by either function.
InitCapture ==
    /\ pc = "capture"
    /\ AgentIdle
    /\ FanIdle
    /\ TraceIdle
    /\ BootIdle
    /\ cap \in [fn : CaptureFns, url : CaptureUrls, at : {"launch"},
                browser : {"none"}, done : {"none"},
                result : {[kind |-> "pending"]}]

CaptureStep ==
    /\ cap.fn \in CaptureFns
    /\ cap.done = "none"
    /\ \E out \in StepOutcomes(cap.fn, cap.at) :
          cap' = IF cap.fn = "_capture_one" THEN CaptureOneStep(cap, out)
                 ELSE GoStep(cap, out)
    /\ UNCHANGED <<traceIn, traceOut, discovered, tool_map, boot>>
    /\ UNCHANGED agentVars
    /\ UNCHANGED fanVars

NextCapture == CaptureStep

SpecCapture == InitCapture /\ [][NextCapture]_vars

\* C28: when a capture has returned or raised, the browser it launched has
\* been closed, in _capture_one and in _go, whatever failed on the way.
C28_BrowserClosed ==
    (cap.done \in {"returned", "raised"} /\ cap.browser # "none")
        => cap.browser = "closed"

====
